---- MODULE Spec2Model ----
(***************************************************************************)
(* The search cell of pc_darts.py: PCDARTSSearchSpace.__init__ and the     *)
(* statements of PCDARTSSearchSpace.forward, one action per statement.     *)
(*                                                                         *)
(* A tensor is a record [shape, val].  shape is the tuple of its           *)
(* dimensions; val is the expression that produced it: <<"x">> for the     *)
(* cell input, <<opname, v>> for a candidate operation applied to v,       *)
(* <<"mul", w, v>> for a scalar weight times v and <<"sum", vs>> for the   *)
(* result of Python's sum().  A softmax weight is the exact fraction       *)
(* <<numerator, denominator>>.  Indices node, i and j are 0-based as in    *)
(* the source; sequences are 1-based, so states[i] of the source is        *)
(* states[i + 1] here.                                                     *)
(***************************************************************************)
EXTENDS Integers, Sequences, FiniteSets, TLC

VARIABLES pc, err, num_nodes, num_ops, in_channels, arch_parameters,
          candidate_operations, x, states, node, node_inputs, i_range, i,
          op_weights, j, result, read_log

vars == <<pc, err, num_nodes, num_ops, in_channels, arch_parameters,
          candidate_operations, x, states, node, node_inputs, i_range, i,
          op_weights, j, result, read_log>>

cellVars == <<num_nodes, num_ops, in_channels, arch_parameters,
              candidate_operations>>

localVars == <<states, node, node_inputs, i_range, i, op_weights, j>>

----------------------------------------------------------------------------
(* Bounds of the explored inputs. *)

MaxNodes == 3
MaxOps == 6
MaxChannels == 2
MaxBatch == 2
MaxSide == 2
MaxSeed == 1

(* Spread of the integer logits standing for the values of torch.randn. *)
LogitRange == 3

None == [shape |-> <<>>, val |-> <<"none">>]

Min(a, b) == IF a < b THEN a ELSE b

Max(a, b) == IF a < b THEN b ELSE a

RECURSIVE SumSeq(_)
SumSeq(s) == IF s = <<>> THEN 0 ELSE Head(s) + SumSeq(Tail(s))

----------------------------------------------------------------------------
(* __init__ *)

(* One entry of torch.randn(i + 2, num_ops): an arbitrary finite logit,    *)
(* drawn here from 0 .. LogitRange - 1 by the seed of the generator.       *)
Randn(seed, k, r, c) == (seed + k + 2 * r + c) % LogitRange

(* Variant of InitArchParameters allocating one row per state produced so  *)
(* far (k + 1) in place of k + 2.                                          *)
InitArchParametersOneInput(n, m, seed) ==
    [k1 \in 1..n |-> [r \in 1..(k1 - 1) + 1 |-> [c \in 1..m |-> Randn(seed, k1 - 1, r - 1, c - 1)]]]

(* arch_parameters: for node k (0-based) a matrix of k + 2 rows of num_ops *)
(* logits.  range(num_nodes) is empty when num_nodes <= 0.                 *)
InitArchParameters(n, m, seed) ==
    [k1 \in 1..n |-> [r \in 1..(k1 - 1) + 2 |-> [c \in 1..m |-> Randn(seed, k1 - 1, r - 1, c - 1)]]]

(* torch.randn raises on a negative dimension, so __init__ fails when it   *)
(* is asked for at least one matrix with num_ops < 0.                      *)
ConstructionRaises(n, m) == n >= 1 /\ m < 0

(* Variant of CandidateOperations whose pooling layers keep the default     *)
(* stride of nn.MaxPool2d / nn.AvgPool2d, the kernel size.                 *)
CandidateOperationsDefaultStride(c) ==
    << [kind |-> "identity", kernel |-> 1, stride |-> 1, padding |-> 0, channels |-> c],
       [kind |-> "conv",     kernel |-> 3, stride |-> 1, padding |-> 1, channels |-> c],
       [kind |-> "conv",     kernel |-> 1, stride |-> 1, padding |-> 0, channels |-> c],
       [kind |-> "maxpool",  kernel |-> 3, stride |-> 3, padding |-> 1, channels |-> c],
       [kind |-> "avgpool",  kernel |-> 3, stride |-> 3, padding |-> 1, channels |-> c] >>

(* The registry built by __init__: always these five, in this order.       *)
CandidateOperations(c) ==
    << [kind |-> "identity", kernel |-> 1, stride |-> 1, padding |-> 0, channels |-> c],
       [kind |-> "conv",     kernel |-> 3, stride |-> 1, padding |-> 1, channels |-> c],
       [kind |-> "conv",     kernel |-> 1, stride |-> 1, padding |-> 0, channels |-> c],
       [kind |-> "maxpool",  kernel |-> 3, stride |-> 1, padding |-> 1, channels |-> c],
       [kind |-> "avgpool",  kernel |-> 3, stride |-> 1, padding |-> 1, channels |-> c] >>

----------------------------------------------------------------------------
(* Tensor primitives used by forward *)

(* Output length of a convolution or pooling window along one dimension.   *)
OutSize(n, op) == ((n + 2 * op.padding - op.kernel) \div op.stride) + 1

(* Does applying op to tensor t raise?  A convolution checks the channel   *)
(* count of its input; every window needs the padded input to cover it.    *)
OpRaises(op, t) ==
    /\ op.kind # "identity"
    /\ \/ Len(t.shape) # 4
       \/ op.kind = "conv" /\ t.shape[2] # op.channels
       \/ t.shape[3] + 2 * op.padding < op.kernel
       \/ t.shape[4] + 2 * op.padding < op.kernel

(* op(t): nn.Identity returns its argument; the others map the shape by    *)
(* the window arithmetic and produce a new value.                          *)
ApplyOperation(op, t) ==
    IF op.kind = "identity" THEN t
    ELSE [shape |-> << t.shape[1],
                       IF op.kind = "conv" THEN op.channels ELSE t.shape[2],
                       OutSize(t.shape[3], op),
                       OutSize(t.shape[4], op) >>,
          val |-> << op.kind, op.kernel, t.val >>]

(* exp of an integer logit difference; base 2 stands for e so that the     *)
(* weights stay exact fractions.                                           *)
Exp(n) == 2 ^ n

MinOf(s) == CHOOSE m \in {s[n] : n \in 1..Len(s)} : \A n \in 1..Len(s) : m <= s[n]

(* F.softmax(v, dim=-1): entry c is exp(v[c]) / sum of exp(v[.]), kept as  *)
(* the fraction <<numerator, denominator>>; empty for an empty vector.     *)
Softmax(v) ==
    IF Len(v) = 0 THEN <<>>
    ELSE LET e == [c \in 1..Len(v) |-> Exp(v[c] - MinOf(v))]
         IN  [c \in 1..Len(v) |-> << e[c], SumSeq(e) >>]

(* w * t for a 0-dimensional weight w: same shape, scaled value.           *)
Mul(w, t) == [shape |-> t.shape, val |-> << "mul", w, t.val >>]

(* Shape of t1 + t2 + ... for tensors of rank 4 under broadcasting: in     *)
(* every dimension the sizes must be equal or 1, and the result takes the  *)
(* largest.  The sum of no tensors is the Python number 0, of shape <<>>.  *)
DimSizes(ts, d) == {ts[n].shape[d] : n \in 1..Len(ts)}

MaxOf(S) == CHOOSE m \in S : \A n \in S : n <= m

SumShape(ts) ==
    IF ts = <<>> THEN <<>>
    ELSE [d \in 1..4 |-> MaxOf(DimSizes(ts, d))]

SumRaises(ts) ==
    /\ ts # <<>>
    /\ \E d \in 1..4 : DimSizes(ts, d) \ {1, MaxOf(DimSizes(ts, d))} # {}

(* sum(node_inputs): 0 + t1 + t2 + ...                                     *)
Sum(ts) == [shape |-> SumShape(ts), val |-> << "sum", [n \in 1..Len(ts) |-> ts[n].val] >>]

(* Variant of SourceCount without the clamp: range(node + 2). *)
SourceCountUnclamped(k, len) == k + 2

(* range(min(node + 2, len(states))) *)
SourceCount(k, len) == Min(k + 2, len)

----------------------------------------------------------------------------
(* State machine *)

Init ==
    /\ pc = "new"
    /\ err = "none"
    /\ num_nodes = 0
    /\ num_ops = 0
    /\ in_channels = 0
    /\ arch_parameters = <<>>
    /\ candidate_operations = <<>>
    /\ x = None
    /\ states = <<>>
    /\ node = 0
    /\ node_inputs = <<>>
    /\ i_range = 0
    /\ i = 0
    /\ op_weights = <<>>
    /\ j = 0
    /\ result = None
    /\ read_log = {}

(* PCDARTSSearchSpace(num_nodes, num_ops, in_channels) *)
Construct ==
    /\ pc = "new"
    /\ \E n \in (-1)..MaxNodes, m \in (-1)..MaxOps, c \in 1..MaxChannels, seed \in 0..MaxSeed :
          /\ num_nodes' = n
          /\ num_ops' = m
          /\ in_channels' = c
          /\ IF ConstructionRaises(n, m)
             THEN /\ pc' = "ctor_failed"
                  /\ err' = "negative_dimension"
                  /\ UNCHANGED <<arch_parameters, candidate_operations>>
             ELSE /\ pc' = "idle"
                  /\ arch_parameters' = InitArchParameters(n, m, seed)
                  /\ candidate_operations' = CandidateOperations(c)
                  /\ UNCHANGED err
    /\ UNCHANGED <<x, result, read_log>>
    /\ UNCHANGED localVars

(* forward(x) is called: states = [x], the node loop starts at 0. *)
Forward ==
    /\ pc \in {"idle", "done", "error"}
    /\ \E b \in 1..MaxBatch, c \in 1..MaxChannels, h \in 1..MaxSide, w \in 1..MaxSide :
          x' = [shape |-> <<b, c, h, w>>, val |-> <<"x">>]
    /\ states' = << x' >>
    /\ node' = 0
    /\ node_inputs' = <<>>
    /\ i_range' = 0
    /\ i' = 0
    /\ op_weights' = <<>>
    /\ j' = 0
    /\ result' = None
    /\ read_log' = {}
    /\ err' = "none"
    /\ pc' = "node"
    /\ UNCHANGED cellVars

(* for node in range(num_nodes): node_inputs = []; the range of the source *)
(* loop is evaluated once, here.                                           *)
BeginNode ==
    /\ pc = "node"
    /\ node < num_nodes
    /\ node_inputs' = <<>>
    /\ i_range' = SourceCount(node, Len(states))
    /\ i' = 0
    /\ pc' = "source"
    /\ UNCHANGED <<err, x, states, node, op_weights, j, result, read_log>>
    /\ UNCHANGED cellVars

(* Variant of ReadWeights that shifts the logits in place before the       *)
(* softmax, writing the row back into arch_parameters.                     *)
ReadWeightsInPlace ==
    /\ pc = "source"
    /\ i < i_range
    /\ IF node + 1 > Len(arch_parameters) \/ i + 1 > Len(arch_parameters[node + 1])
       THEN /\ pc' = "error"
            /\ err' = "index"
            /\ UNCHANGED <<op_weights, j, read_log, arch_parameters>>
       ELSE /\ op_weights' = Softmax(arch_parameters[node + 1][i + 1])
            /\ arch_parameters' =
                  [arch_parameters EXCEPT ![node + 1][i + 1] =
                      [c \in 1..Len(@) |-> @[c] - MinOf(@)]]
            /\ read_log' = read_log \cup {<<node, i>>}
            /\ j' = 0
            /\ pc' = "op"
            /\ UNCHANGED err
    /\ UNCHANGED <<x, states, node, node_inputs, i_range, i, result>>
    /\ UNCHANGED <<num_nodes, num_ops, in_channels, candidate_operations>>

(* op_weights = F.softmax(self.arch_parameters[node][i], dim=-1) *)
ReadWeights ==
    /\ pc = "source"
    /\ i < i_range
    /\ IF node + 1 > Len(arch_parameters) \/ i + 1 > Len(arch_parameters[node + 1])
       THEN /\ pc' = "error"
            /\ err' = "index"
            /\ UNCHANGED <<op_weights, j, read_log>>
       ELSE /\ op_weights' = Softmax(arch_parameters[node + 1][i + 1])
            /\ read_log' = read_log \cup {<<node, i>>}
            /\ j' = 0
            /\ pc' = "op"
            /\ UNCHANGED err
    /\ UNCHANGED <<x, states, node, node_inputs, i_range, i, result>>
    /\ UNCHANGED cellVars

(* node_inputs.append(op_weights[j] * op(states[i])) for the j-th          *)
(* operation of the registry; op_weights[j] is evaluated first.            *)
ApplyOp ==
    /\ pc = "op"
    /\ j < Len(candidate_operations)
    /\ IF j + 1 > Len(op_weights) \/ i + 1 > Len(states)
       THEN /\ pc' = "error"
            /\ err' = "index"
            /\ UNCHANGED <<node_inputs, i, j>>
       ELSE IF OpRaises(candidate_operations[j + 1], states[i + 1])
       THEN /\ pc' = "error"
            /\ err' = "shape"
            /\ UNCHANGED <<node_inputs, i, j>>
       ELSE /\ node_inputs' = Append(node_inputs,
                                Mul(op_weights[j + 1],
                                    ApplyOperation(candidate_operations[j + 1], states[i + 1])))
            /\ IF j + 1 < Len(candidate_operations)
               THEN /\ j' = j + 1
                    /\ UNCHANGED <<i, pc>>
               ELSE /\ j' = 0
                    /\ i' = i + 1
                    /\ pc' = "source"
            /\ UNCHANGED err
    /\ UNCHANGED <<x, states, node, i_range, op_weights, result, read_log>>
    /\ UNCHANGED cellVars

(* Variant of AppendState that stores the node output over the last entry  *)
(* of the state list instead of appending it.                              *)
AppendStateOverwrite ==
    /\ pc = "source"
    /\ i >= i_range
    /\ IF SumRaises(node_inputs)
       THEN /\ pc' = "error"
            /\ err' = "shape"
            /\ UNCHANGED <<states, node>>
       ELSE /\ states' = [states EXCEPT ![Len(states)] = Sum(node_inputs)]
            /\ node' = node + 1
            /\ pc' = "node"
            /\ UNCHANGED err
    /\ UNCHANGED <<x, node_inputs, i_range, i, op_weights, j, result, read_log>>
    /\ UNCHANGED cellVars

(* states.append(sum(node_inputs)), then the next node. *)
AppendState ==
    /\ pc = "source"
    /\ i >= i_range
    /\ IF SumRaises(node_inputs)
       THEN /\ pc' = "error"
            /\ err' = "shape"
            /\ UNCHANGED <<states, node>>
       ELSE /\ states' = Append(states, Sum(node_inputs))
            /\ node' = node + 1
            /\ pc' = "node"
            /\ UNCHANGED err
    /\ UNCHANGED <<x, node_inputs, i_range, i, op_weights, j, result, read_log>>
    /\ UNCHANGED cellVars

(* return states[-1] *)
Return ==
    /\ pc = "node"
    /\ node >= num_nodes
    /\ result' = states[Len(states)]
    /\ pc' = "done"
    /\ UNCHANGED <<err, x, read_log>>
    /\ UNCHANGED localVars
    /\ UNCHANGED cellVars

(* The optimizer built by configure_optimizers updates the parameters     *)
(* after a forward pass has returned; the new values are arbitrary.        *)
OptimizerStep ==
    /\ pc = "done"
    /\ \E seed \in 0..MaxSeed :
          /\ arch_parameters' = InitArchParameters(num_nodes, num_ops, seed)
          /\ arch_parameters' # arch_parameters
    /\ pc' = "idle"
    /\ UNCHANGED <<err, num_nodes, num_ops, in_channels, candidate_operations,
                   x, result, read_log>>
    /\ UNCHANGED localVars

ForwardStep == BeginNode \/ ReadWeights \/ ApplyOp \/ AppendState \/ Return

Next == Construct \/ Forward \/ BeginNode \/ ReadWeights \/ ApplyOp
           \/ AppendState \/ Return \/ OptimizerStep

Spec == Init /\ [][Next]_vars

----------------------------------------------------------------------------
(* Properties *)

Constructed == pc \notin {"new", "ctor_failed"}

InForward == pc \in {"node", "source", "op"}

RegistrySize == Len(candidate_operations)

(* The contributions of the e-th (0-based) fully evaluated edge of the     *)
(* node being processed.                                                   *)
EdgeTerms(e) == SubSeq(node_inputs, e * RegistrySize + 1, (e + 1) * RegistrySize)

CompleteEdges == 0..((Len(node_inputs) \div RegistrySize) - 1)

(* C1: constructing the cell with num_nodes <= 0 fails at construction, so *)
(* no constructed cell has num_nodes <= 0 and no forward call returns the   *)
(* raw input as the cell output.                                           *)
C1_NoCellWithoutNodes ==
    /\ Constructed => num_nodes >= 1
    /\ pc = "done" => result # x

(* C2: after construction with num_nodes >= 1, node k (0 <= k < num_nodes) *)
(* has exactly k + 2 architecture-parameter vectors, each of exactly        *)
(* num_ops entries.                                                        *)
C2_ArchParameterCounts ==
    (Constructed /\ num_nodes >= 1) =>
        /\ Len(arch_parameters) = num_nodes
        /\ \A k \in 0..(num_nodes - 1) :
              /\ Len(arch_parameters[k + 1]) = k + 2
              /\ \A r \in 1..Len(arch_parameters[k + 1]) :
                    Len(arch_parameters[k + 1][r]) = num_ops

(* A cell of three nodes holds 2, 3 and 4 vectors of five entries.         *)
C2_Witness ==
    /\ Constructed
    /\ num_nodes = 3
    /\ num_ops = 5
    /\ [k \in 1..3 |-> Len(arch_parameters[k])] = <<2, 3, 4>>

(* C3: when forward returns, every node k has read all of its k + 2        *)
(* architecture-parameter vectors, one per source index 0 .. k + 1.        *)
C3_AllVectorsRead ==
    pc = "done" =>
        \A k \in 0..(num_nodes - 1) : \A s \in 0..(k + 1) : <<k, s>> \in read_log

(* C4: for an input whose channel count is in_channels, every weighted     *)
(* candidate output, every node's sum and the value returned by forward    *)
(* have the shape of the input, and no operation rejects its input.        *)
C4_ShapePreserved ==
    (pc \in {"node", "source", "op", "done", "error"} /\ x.shape[2] = in_channels) =>
        /\ \A n \in 1..Len(node_inputs) : node_inputs[n].shape = x.shape
        /\ \A n \in 1..Len(states) : states[n].shape = x.shape
        /\ pc = "done" => result.shape = x.shape
        /\ err # "shape"

(* forward has returned from a cell of two or more nodes on an input with  *)
(* more than one channel, row and column.                                  *)
C4_Witness ==
    /\ pc = "done"
    /\ num_nodes >= 2
    /\ num_ops = 5
    /\ x.shape = <<2, 2, 2, 2>>
    /\ in_channels = 2
    /\ result.shape = <<2, 2, 2, 2>>

(* C5: on every evaluated edge the contributions are softmax(weights)[j] * *)
(* operation_j(source) for every registry index j, and the weights applied *)
(* are strictly positive and sum to 1.                                     *)
C5_ConvexCombination ==
    pc \in {"source", "op"} =>
        \A e \in CompleteEdges :
            /\ \A c \in 1..RegistrySize :
                  /\ EdgeTerms(e)[c] =
                        Mul(Softmax(arch_parameters[node + 1][e + 1])[c],
                            ApplyOperation(candidate_operations[c], states[e + 1]))
                  /\ EdgeTerms(e)[c].val[2][1] > 0
            /\ SumSeq([c \in 1..RegistrySize |-> EdgeTerms(e)[c].val[2][1]])
                  = EdgeTerms(e)[1].val[2][2]

(* C6: with num_ops = 1 a finished forward call has returned, and its      *)
(* output and every node output equal the input.                           *)
C6_SingleIdentityReturnsInput ==
    (Constructed /\ num_ops = 1 /\ num_nodes >= 1 /\ pc \in {"done", "error"}) =>
        /\ pc = "done"
        /\ result = x
        /\ \A n \in 1..Len(states) : states[n] = x

(* C7: no constructed cell has num_ops different from the registry size,   *)
(* and forward never meets the mismatch as an index error.                 *)
C7_NumOpsMatchesRegistry ==
    /\ Constructed => num_ops = RegistrySize
    /\ err # "index"

(* C8: within a forward call the state list starts as [x], has length      *)
(* node + 1 before node `node` is processed and num_nodes + 1 at return,    *)
(* only ever grows by appending the sum of the node just processed at      *)
(* index node + 1, keeps every earlier entry, and its last entry is the     *)
(* value returned.                                                         *)
C8_StatePrefixKept ==
    InForward =>
        /\ Len(states') >= Len(states)
        /\ Len(states') <= Len(states) + 1
        /\ \A n \in 1..Len(states) : states'[n] = states[n]
        /\ Len(states') = Len(states) + 1 =>
              /\ Len(states') = node + 2
              /\ node' = node + 1
              /\ states'[node + 2] = Sum(node_inputs)

C8_StateLength ==
    /\ InForward => (Len(states) = node + 1 /\ states[1] = x)
    /\ pc = "done" =>
          /\ Len(states) = Max(num_nodes, 0) + 1
          /\ result = states[Len(states)]
          /\ num_nodes >= 1 => result = states[(num_nodes - 1) + 2]

C8_StatesAppendOnly == [][C8_StatePrefixKept]_vars /\ []C8_StateLength

(* forward has returned the fourth entry of the state list of a cell of    *)
(* three nodes.                                                            *)
C8_Witness ==
    /\ pc = "done"
    /\ num_nodes = 3
    /\ Len(states) = 4
    /\ result = states[4]
    /\ result # x

(* C9: once the cell is constructed, num_nodes, num_ops and the registry   *)
(* never change, and the architecture parameters change only in the        *)
(* optimizer step between forward calls, never in a step of forward.       *)
C9_ForwardOnlyReads ==
    [][ pc # "new" =>
          /\ UNCHANGED <<num_nodes, num_ops, in_channels, candidate_operations>>
          /\ arch_parameters' # arch_parameters => (pc = "done" /\ pc' = "idle") ]_vars

(* forward has returned after reading every row it uses, and the           *)
(* parameters are still a full set of rows of logits.                      *)
C9_Witness ==
    /\ pc = "done"
    /\ num_nodes = 2
    /\ num_ops = 5
    /\ read_log = {<<0, 0>>, <<1, 0>>, <<1, 1>>}
    /\ \E seed \in 0..MaxSeed : arch_parameters = InitArchParameters(2, 5, seed)
    /\ candidate_operations = CandidateOperations(in_channels)

(* C10: in a cell built with num_ops equal to the registry size, every     *)
(* index forward uses is in bounds when it is read and no index error      *)
(* occurs; nodes are processed in increasing order up to num_nodes; and    *)
(* forward terminates: every step moves its loop position <<node, i, j>>   *)
(* strictly forward below fixed limits and a next step is always there.    *)
C10_IndicesInBounds ==
    (Constructed /\ num_ops = RegistrySize) =>
        /\ err # "index"
        /\ InForward =>
              /\ node >= 0 /\ node <= Max(num_nodes, 0)
              /\ ENABLED ForwardStep
        /\ pc \in {"source", "op"} =>
              /\ node < num_nodes
              /\ i >= 0 /\ i <= i_range /\ i_range <= node + 2
        /\ (pc = "source" /\ i < i_range) =>
              /\ i < Len(states)
              /\ node < Len(arch_parameters)
              /\ i < Len(arch_parameters[node + 1])
        /\ pc = "op" =>
              /\ j >= 0 /\ j < num_ops
              /\ j < Len(op_weights)
              /\ i < i_range
              /\ i < Len(states)
              /\ i < Len(arch_parameters[node + 1])

(* Position of forward in its three nested loops. *)
LoopPosition(p, k, s, c) ==
    << k, IF p = "node" THEN 0 ELSE 1, s, IF p = "op" THEN c + 1 ELSE 0 >>

LexLess(a, b) ==
    \E n \in 1..4 : a[n] < b[n] /\ \A q \in 1..(n - 1) : a[q] = b[q]

C10_StepAdvances ==
    (InForward /\ num_ops = RegistrySize) =>
        /\ node' = node \/ (node' = node + 1 /\ node < num_nodes)
        /\ pc' \in {"node", "source", "op"} =>
              LexLess(LoopPosition(pc, node, i, j), LoopPosition(pc', node', i', j'))
        /\ pc' \in {"node", "source", "op", "done", "error"}

C10_ForwardInBoundsAndTerminates ==
    []C10_IndicesInBounds /\ [][C10_StepAdvances]_vars

(* The last operation of the last source of the last node of a three-node  *)
(* cell is about to be applied.                                            *)
C10_Witness ==
    /\ pc = "op"
    /\ num_nodes = 3
    /\ num_ops = 5
    /\ node = 2
    /\ i = 2
    /\ j = 4

====
